---------------------------- MODULE Spec2Model ----------------------------
(***************************************************************************)
(* RustSBI-JH7100: two harts booting through rust_main, parking in         *)
(* pause(), and running the execute_supervisor trap loop underneath an     *)
(* S-mode kernel.  Shared state is the CLINT (msip, mtime, mtimecmp) and   *)
(* the hart state monitor (per-hart state and command mailbox).            *)
(* The entry stub's stack computation comes first on each hart; the UART   *)
(* driver is followed on its own under UartSpec.                           *)
(*                                                                         *)
(* Register values are integers.  Supervisor addresses are byte offsets    *)
(* from the DRAM base 0x8000_0000, so 0x8020_0000 is 0x20_0000; PMP        *)
(* arithmetic is done bit-exactly on 64-bit words kept as sets of bit      *)
(* positions.                                                              *)
(***************************************************************************)
EXTENDS Integers, FiniteSets, Sequences, TLC

Hart == {0, 1}

\* ----------------------------------------------------------------- bounds
\* S-mode instructions that trap (ecall, rdtime, illegal) per hart.
MaxOps == 2
\* The CLINT mtime counter stops ticking here.
MaxTime == 2
\* Bytes handed to the UART's write().
MaxBytes == 3
\* Bytes the UART transmitter holds before it discards one.
TxDepth == 2

\* -------------------------------------------------------- program constants
\* execute.rs:20, the "non-retentive resume" sentinel 0x233.
SENTINEL == 563
\* main.rs:89, 0x8020_0000 as an offset from the DRAM base 0x8000_0000.
SUPERVISOR_ENTRY == 2097152
\* main.rs:46, DEVICE_TREE.as_ptr(): the address of the linked-in blob.
DEVICE_TREE == 4096
\* main.rs:30-31, the stack of one hart and of both.
PER_HART_STACK_SIZE == 16384
SBI_STACK_SIZE == 2 * PER_HART_STACK_SIZE
\* main.rs:33, the address the linker gives the SBI_STACK array.
SBI_STACK == 131072

\* SBI extension and function ids (spec 4.5), and HSM suspend kinds.
EID_HSM == 4739917
EID_IPI == 7557193
EID_TIME == 1414090053
EID_LEGACY_PUTCHAR == 1
FID_HART_START == 0
FID_HART_STOP == 1
FID_HART_GET_STATUS == 2
FID_HART_SUSPEND == 3
SUSPEND_RETENTIVE == 0
\* 0x8000_0000, written as the 32-bit pattern it is.
SUSPEND_NON_RETENTIVE == (-2147483647) - 1

\* What the S-mode kernel of the model passes in.
ResumeAddrs == {SUPERVISOR_ENTRY + 256}
Opaques == {7}
TrapVector == SUPERVISOR_ENTRY + 512
SatpValues == {9}
TimerValues == {1}

\* ------------------------------------------------------ 64-bit words as bits
WordBits == 0 .. 63

ShiftRight(w, n) == {b - n : b \in {x \in w : x >= n}}

ShiftLeft(w, n) == {b + n : b \in {x \in w : x + n <= 63}}

WordOr(a, b) == a \cup b

WordXor(a, b) == (a \cup b) \ (a \cap b)

RECURSIVE WordAdd(_, _)
WordAdd(a, b) == IF b = {} THEN a ELSE WordAdd(WordXor(a, b), ShiftLeft(a \cap b, 1))

LowestBit(w) == CHOOSE b \in w : \A c \in w : b <= c

\* w - 1 (wrapping at zero, as usize subtraction does in release builds).
WordDec(w) == IF w = {} THEN WordBits ELSE (w \ {LowestBit(w)}) \cup (0 .. (LowestBit(w) - 1))

Pow2(k) == {k}

\* main.rs:118, the calc_pmpaddr closure.
calc_pmpaddr(start_addr, length) ==
    WordOr(ShiftRight(start_addr, 2), WordDec(ShiftRight(length, 2)))

\* The three (base, log2 size) ranges named in set_pmp's comments.
PmpStated == << [base |-> Pow2(28), size |-> Pow2(27)],
                [base |-> Pow2(25), size |-> Pow2(16)],
                [base |-> Pow2(31), size |-> Pow2(33)] >>

\* What a hart decodes from a NAPOT pmpaddr: k trailing ones stand for a
\* naturally aligned region of 2^(k+3) bytes.
TrailingOnes(w) == CHOOSE k \in 0 .. 64 : k \notin w /\ \A j \in 0 .. (k - 1) : j \in w

NapotLogSize(w) == TrailingOnes(w) + 3

NapotBase(w) == ShiftLeft({b \in w : b > TrailingOnes(w)}, 2)

\* Address a lies in the NAPOT region encoded by pmpaddr w.
InNapot(a, w) ==
    {b \in a : b >= NapotLogSize(w)} = {b \in NapotBase(w) : b >= NapotLogSize(w)}

\* Last byte of [base, base + size).
LastByte(r) == WordAdd(r.base, WordDec(r.size))

\* main.rs:119-128, the values set_pmp writes.
PmpCfg0 == 27 + (27 * 256) + (31 * 65536)

PmpAddrs == [i \in 1 .. 3 |-> calc_pmpaddr(PmpStated[i].base, PmpStated[i].size)]

\* -------------------------------------------------------------- state
VARIABLES
    pc,        \* per hart: where the hart is in the firmware, or "smode"
    pauseRet,  \* per hart: the caller pause() returns to
    prevMsoft, \* per hart: pause()'s local prev_msoft
    ctx,       \* per hart: the SupervisorContext
    mstatus,   \* per hart CSR: [sie, spie, spp, mpp]
    satp,      \* per hart CSR
    scause,    \* per hart CSR
    sepc,      \* per hart CSR
    stvec,     \* per hart CSR
    mie,       \* per hart CSR: [msie, mtie, meie]
    stip,      \* per hart: mip.STIP
    mideleg,   \* per hart CSR: set of delegated interrupts
    medeleg,   \* per hart CSR: set of delegated exceptions
    pmp,       \* per hart: [cfg0, addr] as written by set_pmp
    msip,      \* CLINT msip[i]; mip.MSIP of hart i is this level
    mtime,     \* CLINT mtime
    mtimecmp,  \* CLINT mtimecmp[i]
    hstate,    \* HSM: per-hart state
    cmd,       \* HSM: per-hart mailbox
    ans,       \* per hart: the SbiRet of the call being handled
    ins,       \* per hart: the instruction word at the trapping mepc
    kernel,    \* the S-mode payload copied to 0x8020_0000 (fixed at boot)
    ops,       \* per hart: trapping S-mode instructions still allowed
    fresh,     \* per hart: entered at a start/resume address, nothing run yet
    stopping,  \* per hart: hart_stop was called and no Start applied since
    lastTime,  \* per hart: the latest rdtime result (-1: none)
    prevTime,  \* per hart: the rdtime result before that (-1: none)
    ssoft,     \* per hart: S-mode software interrupts injected so far
    ipiByS,    \* per hart: IPIs raised for it on behalf of S-mode software
    unseen,    \* per hart: an IPI was raised for it that it has not observed yet
    initLog,   \* the global initialisation steps run so far, in order
    entryMie,  \* per hart: mie as it was when pause() was last entered
    sp,        \* per hart: the stack pointer register
    t2,        \* per hart: the loop counter of the entry stub
    thr,       \* UART: the bytes the transmitter holds, oldest first
    wire,      \* UART: the bytes shifted out on the line so far
    flushed,   \* UART: what the last flush() returned
    dropped    \* UART: the bytes the transmitter discarded

vars == << pc, pauseRet, prevMsoft, ctx, mstatus, satp, scause, sepc, stvec,
           mie, stip, mideleg, medeleg, pmp, msip, mtime, mtimecmp, hstate,
           cmd, ans, ins, kernel, ops, fresh, stopping, lastTime, prevTime, ssoft,
           ipiByS, unseen, initLog, entryMie, sp, t2, thr, wire, flushed, dropped >>

csrs == << satp, scause, sepc, stvec, stip >>
boot == << mideleg, medeleg, pmp >>
clintTime == << mtime, mtimecmp >>
times == << lastTime, prevTime >>
aux == << unseen, initLog, entryMie >>
ghost == << fresh, stopping, times, ssoft, ipiByS, aux >>
call == << ans, ins, kernel >>
stack == << sp, t2 >>
uart == << thr, wire, flushed, dropped >>
harts == << pc, pauseRet, prevMsoft, ctx, mstatus, csrs, mie, boot, msip, clintTime,
           hstate, cmd, call, ops, ghost, stack >>

\* The payloads of the model: one exercising the hart lifecycle on both harts,
\* one exercising traps, timers and plain calls on hart 0, and one in which
\* hart 1 stops itself while hart 0 keeps signalling and starting it.
Kernels == {"lifecycle", "traps", "wake"}

\* The trapping instructions the payload executes on hart h.
OpsBudget(k, h) ==
    IF k = "wake" THEN (IF h = 0 THEN MaxOps + 1 ELSE 1) ELSE MaxOps

NoCmd == [tag |-> "None"]
NoAns == [error |-> 0, value |-> 0]
NoPmp == [cfg0 |-> 0, addr |-> << >>]
ResetMstatus == [sie |-> FALSE, spie |-> FALSE, spp |-> "U", mpp |-> "M"]
NoCtx == [a0 |-> 0, a1 |-> 0, a2 |-> 0, a6 |-> 0, a7 |-> 0, mepc |-> 0,
          mstatus |-> ResetMstatus]

Init ==
    /\ pc = [h \in Hart |-> "entry"]
    /\ pauseRet = [h \in Hart |-> "boot"]
    /\ prevMsoft = [h \in Hart |-> FALSE]
    /\ ctx = [h \in Hart |-> NoCtx]
    /\ mstatus = [h \in Hart |-> ResetMstatus]
    /\ satp = [h \in Hart |-> 0]
    /\ scause = [h \in Hart |-> "none"]
    /\ sepc = [h \in Hart |-> 0]
    /\ stvec = [h \in Hart |-> 0]
    /\ mie = [h \in Hart |-> [msie |-> FALSE, mtie |-> FALSE, meie |-> FALSE]]
    /\ stip = [h \in Hart |-> FALSE]
    /\ mideleg = [h \in Hart |-> {}]
    /\ medeleg = [h \in Hart |-> {}]
    /\ pmp = [h \in Hart |-> NoPmp]
    /\ msip = [h \in Hart |-> FALSE]
    /\ mtime = 0
    /\ mtimecmp = [h \in Hart |-> MaxTime + 1]
    /\ hstate = [h \in Hart |-> IF h = 0 THEN "START_PENDING" ELSE "STOPPED"]
    /\ cmd = [h \in Hart |-> NoCmd]
    /\ ans = [h \in Hart |-> NoAns]
    /\ ins = [h \in Hart |-> "none"]
    /\ kernel \in Kernels
    /\ ops = [h \in Hart |-> OpsBudget(kernel, h)]
    /\ fresh = [h \in Hart |-> FALSE]
    /\ stopping = [h \in Hart |-> FALSE]
    /\ lastTime = [h \in Hart |-> -1]
    /\ prevTime = [h \in Hart |-> -1]
    /\ ssoft = [h \in Hart |-> 0]
    /\ ipiByS = [h \in Hart |-> 0]
    /\ unseen = [h \in Hart |-> FALSE]
    /\ initLog = << >>
    /\ entryMie = mie
    /\ sp = [h \in Hart |-> 0]
    /\ t2 = [h \in Hart |-> 0]
    /\ thr = << >>
    /\ wire = << >>
    /\ flushed = "none"
    /\ dropped = << >>

\* ------------------------------------------------------------ CLINT
send_soft(m, t) == [m EXCEPT ![t] = TRUE]

clear_soft(m, t) == [m EXCEPT ![t] = FALSE]

\* mip.MSIP is the level of the CLINT's msip line.
MipMsoft(h) == msip[h]

MipMtimer(h) == mtime >= mtimecmp[h]

\* mtime is followed only where a hart can observe it: while a read of it is
\* being emulated or a timer is armed.
TimeObserved == \E h \in Hart : pc[h] = "illegal" \/ mie[h].mtie

Tick ==
    /\ mtime < MaxTime
    /\ TimeObserved
    /\ mtime' = mtime + 1
    /\ UNCHANGED << pc, pauseRet, prevMsoft, ctx, mstatus, csrs, mie, boot, msip,
                    mtimecmp, hstate, cmd, call, ops, ghost, stack, uart >>

\* ------------------------------------------------------------ entry
\* The hart is still in the entry stub.
EntryStub == {"entry", "entry_loop"}

\* Faulty variant of the entry stub: the count does not depend on the hart.
EntryCountShared(h) == 1

\* main.rs:233-234: csrr t1, mhartid; addi t2, t1, 1.
EntryCount(h) == h + 1

\* main.rs:231-234: la sp, SBI_STACK; li t0, PER_HART_STACK_SIZE; t2 = mhartid + 1.
Entry(h) ==
    /\ pc[h] = "entry"
    /\ sp' = [sp EXCEPT ![h] = SBI_STACK]
    /\ t2' = [t2 EXCEPT ![h] = EntryCount(h)]
    /\ pc' = [pc EXCEPT ![h] = "entry_loop"]
    /\ UNCHANGED << pauseRet, prevMsoft, ctx, mstatus, csrs, mie, boot, msip, clintTime,
                    hstate, cmd, call, ops, ghost, uart >>

\* main.rs:235-240: one round of the add loop (add sp, sp, t0; addi t2, t2, -1;
\* bnez t2, 1b), and the jump to rust_main when the branch falls through.
EntryLoop(h) ==
    /\ pc[h] = "entry_loop"
    /\ sp' = [sp EXCEPT ![h] = @ + PER_HART_STACK_SIZE]
    /\ t2' = [t2 EXCEPT ![h] = @ - 1]
    /\ pc' = [pc EXCEPT ![h] = IF t2'[h] # 0 THEN "entry_loop" ELSE "boot"]
    /\ UNCHANGED << pauseRet, prevMsoft, ctx, mstatus, csrs, mie, boot, msip, clintTime,
                    hstate, cmd, call, ops, ghost, uart >>

\* Faulty variant of rust_main: the secondary hart skips pause().
RustMainNoPause(h) ==
    /\ pc[h] = "boot"
    /\ pc' = [pc EXCEPT ![h] = IF h = 0 THEN "init_bss" ELSE "set_pmp"]
    /\ UNCHANGED << pauseRet, prevMsoft, ctx, mstatus, csrs, mie, boot, msip, clintTime,
                    hstate, cmd, call, ops, ghost, stack, uart >>

\* ------------------------------------------------------------ rust_main
\* main.rs:45-52 on hart 0 (global initialisation follows), main.rs:74-75 on
\* the others.
RustMain(h) ==
    /\ pc[h] = "boot"
    /\ IF h = 0
       THEN pc' = [pc EXCEPT ![h] = "init_bss"] /\ UNCHANGED pauseRet
       ELSE /\ pc' = [pc EXCEPT ![h] = "pause_clear"]
            /\ pauseRet' = [pauseRet EXCEPT ![h] = "boot"]
    /\ UNCHANGED << prevMsoft, ctx, mstatus, csrs, mie, boot, msip, clintTime,
                    hstate, cmd, call, ops, ghost, stack, uart >>

\* What a hart runs before the release IPI has been sent: the entry stub and
\* the first part of rust_main.
BootInit == EntryStub \cup {"boot", "init_bss", "init_heap", "init_stdio", "init_clint",
                            "boot_send"}

\* Faulty variant of the global initialisation: the heap is not set up before
\* the providers are bound.
InitBssSkipsHeap(h) ==
    /\ pc[h] = "init_bss"
    /\ initLog' = initLog \o << "bss" >>
    /\ pc' = [pc EXCEPT ![h] = "init_stdio"]
    /\ UNCHANGED << pauseRet, prevMsoft, ctx, mstatus, csrs, mie, boot, msip, clintTime,
                    hstate, cmd, call, ops, fresh, stopping, times, ssoft, ipiByS,
                    unseen, entryMie, stack, uart >>

\* main.rs:53
InitBss(h) ==
    /\ pc[h] = "init_bss"
    /\ initLog' = initLog \o << "bss" >>
    /\ pc' = [pc EXCEPT ![h] = "init_heap"]
    /\ UNCHANGED << pauseRet, prevMsoft, ctx, mstatus, csrs, mie, boot, msip, clintTime,
                    hstate, cmd, call, ops, fresh, stopping, times, ssoft, ipiByS,
                    unseen, entryMie, stack, uart >>

\* main.rs:54
InitHeap(h) ==
    /\ pc[h] = "init_heap"
    /\ initLog' = initLog \o << "heap" >>
    /\ pc' = [pc EXCEPT ![h] = "init_stdio"]
    /\ UNCHANGED << pauseRet, prevMsoft, ctx, mstatus, csrs, mie, boot, msip, clintTime,
                    hstate, cmd, call, ops, fresh, stopping, times, ssoft, ipiByS,
                    unseen, entryMie, stack, uart >>

\* main.rs:55-64
InitRustsbiStdio(h) ==
    /\ pc[h] = "init_stdio"
    /\ initLog' = initLog \o << "stdio" >>
    /\ pc' = [pc EXCEPT ![h] = "init_clint"]
    /\ UNCHANGED << pauseRet, prevMsoft, ctx, mstatus, csrs, mie, boot, msip, clintTime,
                    hstate, cmd, call, ops, fresh, stopping, times, ssoft, ipiByS,
                    unseen, entryMie, stack, uart >>

\* main.rs:65-72 and 163-166
InitRustsbiClint(h) ==
    /\ pc[h] = "init_clint"
    /\ initLog' = initLog \o << "ipi", "timer" >>
    /\ pc' = [pc EXCEPT ![h] = "boot_send"]
    /\ UNCHANGED << pauseRet, prevMsoft, ctx, mstatus, csrs, mie, boot, msip, clintTime,
                    hstate, cmd, call, ops, fresh, stopping, times, ssoft, ipiByS,
                    unseen, entryMie, stack, uart >>

\* main.rs:73
BootSendSoft(h) ==
    /\ pc[h] = "boot_send"
    /\ msip' = send_soft(msip, 1)
    /\ unseen' = [unseen EXCEPT ![1] = TRUE]
    /\ pc' = [pc EXCEPT ![h] = "set_pmp"]
    /\ UNCHANGED << pauseRet, prevMsoft, ctx, mstatus, csrs, mie, boot, clintTime,
                    hstate, cmd, call, ops, fresh, stopping, times, ssoft, ipiByS,
                    initLog, entryMie, stack, uart >>

SetPmp(h) ==
    /\ pc[h] = "set_pmp"
    /\ pmp' = [pmp EXCEPT ![h] = [cfg0 |-> PmpCfg0, addr |-> PmpAddrs]]
    /\ pc' = [pc EXCEPT ![h] = "delegate"]
    /\ UNCHANGED << pauseRet, prevMsoft, ctx, mstatus, csrs, mie, mideleg, medeleg,
                    msip, clintTime, hstate, cmd, call, ops, ghost, stack, uart >>

\* main.rs:171-176
MidelegBoot == {"sext", "stimer", "ssoft", "uext", "utimer", "usoft"}

\* Faulty variant of the boot delegation: illegal-instruction is delegated too.
MedelegBootIllegal == {"instruction_misaligned", "breakpoint", "user_env_call",
                       "instruction_page_fault", "load_page_fault", "store_page_fault",
                       "instruction_fault", "load_fault", "store_fault",
                       "illegal_instruction"}

\* main.rs:177-185
MedelegBoot == {"instruction_misaligned", "breakpoint", "user_env_call",
                "instruction_page_fault", "load_page_fault", "store_page_fault",
                "instruction_fault", "load_fault", "store_fault"}

DelegateInterruptException(h) ==
    /\ pc[h] = "delegate"
    /\ mideleg' = [mideleg EXCEPT ![h] = @ \cup MidelegBoot]
    /\ medeleg' = [medeleg EXCEPT ![h] = @ \cup MedelegBoot]
    /\ mie' = [mie EXCEPT ![h].meie = TRUE, ![h].msie = TRUE]
    /\ pc' = [pc EXCEPT ![h] = "exec_enter"]
    /\ UNCHANGED << pauseRet, prevMsoft, ctx, mstatus, csrs, pmp, msip, clintTime,
                    hstate, cmd, call, ops, ghost, stack, uart >>

\* ------------------------------------------------------------ pause()
\* main.rs:197
PauseClearSoft(h) ==
    /\ pc[h] = "pause_clear"
    /\ msip' = clear_soft(msip, h)
    /\ entryMie' = [entryMie EXCEPT ![h] = mie[h]]
    /\ pc' = [pc EXCEPT ![h] = "pause_mip"]
    /\ UNCHANGED << pauseRet, prevMsoft, ctx, mstatus, csrs, mie, boot, clintTime,
                    hstate, cmd, call, ops, fresh, stopping, times, ssoft, ipiByS,
                    unseen, initLog, stack, uart >>

\* main.rs:198: mip.MSIP is read-only in mip (it is the CLINT's line), so the
\* csrc leaves the pending level as the CLINT drives it.
PauseClearMsoft(h) ==
    /\ pc[h] = "pause_mip"
    /\ pc' = [pc EXCEPT ![h] = "pause_mie"]
    /\ UNCHANGED << pauseRet, prevMsoft, ctx, mstatus, csrs, mie, boot, msip,
                    clintTime, hstate, cmd, call, ops, ghost, stack, uart >>

\* main.rs:199-200
PauseSetMsoft(h) ==
    /\ pc[h] = "pause_mie"
    /\ prevMsoft' = [prevMsoft EXCEPT ![h] = mie[h].msie]
    /\ mie' = [mie EXCEPT ![h].msie = TRUE]
    /\ pc' = [pc EXCEPT ![h] = "pause_wfi"]
    /\ UNCHANGED << pauseRet, ctx, mstatus, csrs, boot, msip, clintTime, hstate,
                    cmd, call, ops, ghost, stack, uart >>

\* main.rs:202: wfi may return at any time (it may be a no-op).
PauseWfi(h) ==
    /\ pc[h] = "pause_wfi"
    /\ pc' = [pc EXCEPT ![h] = "pause_check"]
    /\ UNCHANGED << pauseRet, prevMsoft, ctx, mstatus, csrs, mie, boot, msip,
                    clintTime, hstate, cmd, call, ops, ghost, stack, uart >>

\* Faulty variant of pause(): the loop never tests mip.MSIP.
PauseLoopNextSleeps(h) == "pause_wfi"

\* main.rs:203-205: where the loop goes after reading mip.
PauseLoopNext(h) == IF MipMsoft(h) THEN "pause_restore" ELSE "pause_wfi"

PauseCheck(h) ==
    /\ pc[h] = "pause_check"
    /\ pc' = [pc EXCEPT ![h] = PauseLoopNext(h)]
    /\ unseen' = [unseen EXCEPT ![h] = IF MipMsoft(h) THEN FALSE ELSE @]
    /\ UNCHANGED << pauseRet, prevMsoft, ctx, mstatus, csrs, mie, boot, msip,
                    clintTime, hstate, cmd, call, ops, fresh, stopping, times, ssoft,
                    ipiByS, initLog, entryMie, stack, uart >>

\* Faulty variant of pause(): mie.MSIE is left set whatever it was before.
PauseRestoreKeeps(h) ==
    /\ pc[h] = "pause_restore"
    /\ pc' = [pc EXCEPT ![h] = "pause_clear2"]
    /\ UNCHANGED << pauseRet, prevMsoft, ctx, mstatus, csrs, mie, boot, msip, clintTime,
                    hstate, cmd, call, ops, ghost, stack, uart >>

\* main.rs:207-209
PauseRestore(h) ==
    /\ pc[h] = "pause_restore"
    /\ mie' = [mie EXCEPT ![h].msie = IF prevMsoft[h] THEN @ ELSE FALSE]
    /\ pc' = [pc EXCEPT ![h] = "pause_clear2"]
    /\ UNCHANGED << pauseRet, prevMsoft, ctx, mstatus, csrs, boot, msip, clintTime,
                    hstate, cmd, call, ops, ghost, stack, uart >>

\* Where pause() returns to.
PauseCaller(h) ==
    CASE pauseRet[h] = "boot" -> "set_pmp"
      [] pauseRet[h] = "suspend" -> "suspend_wake"
      [] pauseRet[h] = "stop" -> "stop_wake"

\* main.rs:210, then the return to the caller.
PauseClearSoftEnd(h) ==
    /\ pc[h] = "pause_clear2"
    /\ msip' = clear_soft(msip, h)
    /\ pc' = [pc EXCEPT ![h] = PauseCaller(h)]
    /\ UNCHANGED << pauseRet, prevMsoft, ctx, mstatus, csrs, mie, boot, clintTime,
                    hstate, cmd, call, ops, ghost, stack, uart >>

InPause(h) == pc[h] \in {"pause_clear", "pause_mip", "pause_mie", "pause_wfi",
                         "pause_check", "pause_restore", "pause_clear2"}

\* ------------------------------------------------------- hart state monitor
Start(addr, opaque) == [tag |-> "Start", addr |-> addr, opaque |-> opaque]

Stop == [tag |-> "Stop"]

\* The value hart_get_status reports (SBI HSM state ids).
HsmCode(s) ==
    CASE s = "STARTED" -> 0
      [] s = "STOPPED" -> 1
      [] s = "START_PENDING" -> 2
      [] s = "STOP_PENDING" -> 3
      [] s = "SUSPENDED" -> 4

record_current_start_finished(st, h) == [st EXCEPT ![h] = "STARTED"]

record_current_stop_finished(st, h) == [st EXCEPT ![h] = "STOPPED"]

\* hsm.last_command() on hart h: the command is taken out of the mailbox.
last_command(h) == cmd[h]

TakeCommand(h) == [cmd EXCEPT ![h] = NoCmd]

SbiOk(v) == [error |-> 0, value |-> v]

SbiErr(e) == [error |-> e, value |-> 0]

\* --------------------------------------------------------------- runtime
\* Runtime::new_sbi_supervisor: the context the first resume enters S-mode with.
new_sbi_supervisor(supervisor_mepc, hart_id, opaque, ms) ==
    [NoCtx EXCEPT !.a0 = hart_id, !.a1 = opaque, !.mepc = supervisor_mepc,
                  !.mstatus = [ms EXCEPT !.mpp = "S"]]

\* rt.resume(): mstatus is restored from the context, MPP = S, then mret.
ResumedMstatus(c) == [c.mstatus EXCEPT !.mpp = "S"]

\* A machine interrupt is taken as soon as the hart is below M-mode.
MachineSoftPending(h) == MipMsoft(h) /\ mie[h].msie

MachineTimerPending(h) == MipMtimer(h) /\ mie[h].mtie

SRunnable(h) ==
    pc[h] = "smode" /\ ~MachineSoftPending(h) /\ ~MachineTimerPending(h)

\* --------------------------------------------------- execute_supervisor
\* Model addresses stay far below 2^64, where usize wraps.
wrapping_add(x, n) == x + n

\* execute.rs:11-15: build the runtime, record the start, first resume.
ExecuteSupervisorEnter(h) ==
    /\ pc[h] = "exec_enter"
    /\ ctx' = [ctx EXCEPT ![h] =
                 new_sbi_supervisor(SUPERVISOR_ENTRY, h, DEVICE_TREE, mstatus[h])]
    /\ hstate' = record_current_start_finished(hstate, h)
    /\ mstatus' = [mstatus EXCEPT ![h] = ResumedMstatus(ctx'[h])]
    /\ fresh' = [fresh EXCEPT ![h] = TRUE]
    /\ pc' = [pc EXCEPT ![h] = "smode"]
    /\ UNCHANGED << pauseRet, prevMsoft, csrs, mie, boot, msip, clintTime, cmd,
                    call, ops, stopping, times, ssoft, ipiByS, aux, stack, uart >>

\* execute.rs:24-25
ClearSatpSie(ms) == [ms EXCEPT !.sie = FALSE]

\* Faulty variant of the resume rewrite: ctx.mstatus keeps its trap-time value.
ResumeRewriteStale(c, hart_id, start_paddr, opaque, ms) ==
    [c EXCEPT !.a0 = hart_id, !.a1 = opaque, !.mepc = start_paddr]

\* execute.rs:28-31 (and 86-89): the non-retentive resume rewrite; ms is the
\* mstatus read back after sstatus.SIE was cleared.
ResumeRewrite(c, hart_id, start_paddr, opaque, ms) ==
    [c EXCEPT !.mstatus = ms, !.a0 = hart_id, !.a1 = opaque, !.mepc = start_paddr]

\* Faulty variant of the normal return: a7 is overwritten as well.
NormalReturnClobbersA7(c, a) ==
    [c EXCEPT !.a0 = a.error, !.a1 = a.value, !.a7 = 0, !.mepc = wrapping_add(c.mepc, 4)]

\* execute.rs:34-36
NormalReturn(c, a) ==
    [c EXCEPT !.a0 = a.error, !.a1 = a.value, !.mepc = wrapping_add(c.mepc, 4)]

\* execute.rs:20-37: the context the SbiCall arm leaves behind.
SbiCallContext(h) ==
    IF ans[h].error = SENTINEL
    THEN IF last_command(h).tag = "Start"
         THEN ResumeRewrite(ctx[h], h, last_command(h).addr, last_command(h).opaque,
                            ClearSatpSie(mstatus[h]))
         ELSE ctx[h]
    ELSE NormalReturn(ctx[h], ans[h])

\* execute.rs:20-22: whether the SbiCall arm takes the resume branch.
SbiCallResumes(h) == ans[h].error = SENTINEL /\ last_command(h).tag = "Start"

\* execute.rs:27
SbiCallHsmState(h) ==
    IF SbiCallResumes(h) THEN record_current_start_finished(hstate, h) ELSE hstate

\* execute.rs:20-38, then the next rt.resume().
SbiReturn(h) ==
    /\ pc[h] = "sbi_ret"
    /\ ctx' = [ctx EXCEPT ![h] = SbiCallContext(h)]
    /\ cmd' = IF ans[h].error = SENTINEL THEN TakeCommand(h) ELSE cmd
    /\ satp' = [satp EXCEPT ![h] = IF SbiCallResumes(h) THEN 0 ELSE @]
    /\ hstate' = SbiCallHsmState(h)
    /\ fresh' = [fresh EXCEPT ![h] = IF SbiCallResumes(h) THEN TRUE ELSE @]
    /\ stopping' = [stopping EXCEPT ![h] = IF SbiCallResumes(h) THEN FALSE ELSE @]
    /\ mstatus' = [mstatus EXCEPT ![h] = ResumedMstatus(ctx'[h])]
    /\ pc' = [pc EXCEPT ![h] = "smode"]
    /\ UNCHANGED << pauseRet, prevMsoft, scause, sepc, stvec, stip, mie, boot, msip,
                    clintTime, call, ops, times, ssoft, ipiByS, aux, stack, uart >>

\* feature::emulate_rdtime: recognises a read of the time CSR.
emulate_rdtime(i) == i = "rdtime"

\* Faulty variant of emulate_illegal_instruction: nothing is emulated.
emulate_illegal_instruction_never(i) == FALSE

\* execute.rs:125-130
emulate_illegal_instruction(i) == IF emulate_rdtime(i) THEN TRUE ELSE FALSE

\* feature::should_transfer_trap: a trap taken from below M-mode may be handed
\* to S-mode; one taken from M-mode is fatal (execute.rs:132-137).
should_transfer_trap(c) == c.mstatus.mpp # "M"

\* feature::do_transfer_trap (spec 4.7): the mstatus an S-mode trap entry leaves.
TransferMstatus(ms) ==
    [ms EXCEPT !.spie = ms.sie, !.sie = FALSE,
               !.spp = IF ms.mpp = "S" THEN "S" ELSE "U", !.mpp = "S"]

\* Faulty variant of the IllegalInstruction arm: no transfer to S-mode.
IllegalOutcomeNoTransfer(c, i) ==
    IF emulate_illegal_instruction(i) THEN "emulated" ELSE "panic"

\* Faulty variant of the IllegalInstruction arm: the transfer is tried before
\* the emulation.
IllegalOutcomeTransferFirst(c, i) ==
    IF should_transfer_trap(c) THEN "transfer"
    ELSE IF emulate_illegal_instruction(i) THEN "emulated" ELSE "panic"

\* Faulty variant of the IllegalInstruction arm: whatever is not emulated is
\* transferred, wherever it came from.
IllegalOutcomeAlwaysTransfer(c, i) ==
    IF emulate_illegal_instruction(i) THEN "emulated" ELSE "transfer"

\* execute.rs:42-54: what the IllegalInstruction arm does with the word.
IllegalOutcome(c, i) ==
    IF emulate_illegal_instruction(i) THEN "emulated"
    ELSE IF should_transfer_trap(c) THEN "transfer" ELSE "panic"

\* execute.rs:39-55
IllegalInstruction(h) ==
    /\ pc[h] = "illegal"
    /\ LET out == IllegalOutcome(ctx[h], ins[h]) IN
       /\ ctx' = [ctx EXCEPT ![h] =
                    CASE out = "emulated" ->
                           [@ EXCEPT !.a0 = mtime, !.mepc = wrapping_add(@, 4)]
                      [] out = "transfer" ->
                           [@ EXCEPT !.mepc = stvec[h],
                                     !.mstatus = TransferMstatus(mstatus[h])]
                      [] OTHER -> @]
       /\ scause' = [scause EXCEPT ![h] = IF out = "transfer" THEN "IllegalInstruction" ELSE @]
       /\ sepc' = [sepc EXCEPT ![h] = IF out = "transfer" THEN ctx[h].mepc ELSE @]
       /\ lastTime' = [lastTime EXCEPT ![h] = IF out = "emulated" THEN mtime ELSE @]
       /\ prevTime' = [prevTime EXCEPT ![h] = IF out = "emulated" THEN lastTime[h] ELSE @]
       /\ pc' = [pc EXCEPT ![h] = IF out = "panic" THEN "panic_invalid_instruction"
                                   ELSE "smode"]
       /\ mstatus' = [mstatus EXCEPT ![h] =
                        IF out = "panic" THEN @ ELSE ResumedMstatus(ctx'[h])]
    /\ UNCHANGED << pauseRet, prevMsoft, satp, stvec, stip, mie, boot, msip, clintTime,
                    hstate, cmd, call, ops, fresh, stopping, ssoft, ipiByS, aux, stack, uart >>

\* Faulty variant of the MachineTimer arm: mie.MTIE is left set.
MachineTimerKeepsMtie(h) ==
    /\ pc[h] = "mtimer"
    /\ stip' = [stip EXCEPT ![h] = TRUE]
    /\ pc' = [pc EXCEPT ![h] = "smode"]
    /\ UNCHANGED << pauseRet, prevMsoft, ctx, mstatus, satp, scause, sepc, stvec, boot,
                    mie, msip, clintTime, hstate, cmd, call, ops, ghost, stack, uart >>

\* execute.rs:56-59
MachineTimer(h) ==
    /\ pc[h] = "mtimer"
    /\ stip' = [stip EXCEPT ![h] = TRUE]
    /\ mie' = [mie EXCEPT ![h].mtie = FALSE]
    /\ pc' = [pc EXCEPT ![h] = "smode"]
    /\ UNCHANGED << pauseRet, prevMsoft, ctx, mstatus, satp, scause, sepc, stvec, boot,
                    msip, clintTime, hstate, cmd, call, ops, ghost, stack, uart >>

\* Faulty variant of the MachineSoft arm: a Start found on a running hart is
\* treated like no command.
MachineSoftNextLenient(h) ==
    CASE last_command(h).tag = "Stop" -> "pause_clear"
      [] OTHER -> "msoft_none"

\* execute.rs:60-67 and 92: the MachineSoft arm reads the mailbox.
MachineSoftNext(h) ==
    CASE last_command(h).tag = "Start" -> "panic_illegal_state"
      [] last_command(h).tag = "Stop" -> "pause_clear"
      [] OTHER -> "msoft_none"

MachineSoft(h) ==
    /\ pc[h] = "msoft"
    /\ cmd' = TakeCommand(h)
    /\ pc' = [pc EXCEPT ![h] = MachineSoftNext(h)]
    /\ hstate' = IF last_command(h).tag = "Stop"
                 THEN record_current_stop_finished(hstate, h) ELSE hstate
    /\ pauseRet' = [pauseRet EXCEPT ![h] = IF last_command(h).tag = "Stop" THEN "stop" ELSE @]
    /\ UNCHANGED << prevMsoft, ctx, mstatus, csrs, mie, boot, msip, clintTime, call,
                    ops, ghost, stack, uart >>

\* execute.rs:68: whether the hart woken from pause() finds a Start.
StopWakeResumes(h) == last_command(h).tag = "Start"

\* Faulty variant of the Stop-path resume: the context is not rewritten.
StopWakeContextKept(h) == ctx[h]

\* execute.rs:68-90: the context after the wake.
StopWakeContext(h) ==
    IF StopWakeResumes(h)
    THEN ResumeRewrite(ctx[h], h, last_command(h).addr, last_command(h).opaque,
                       ClearSatpSie(mstatus[h]))
    ELSE ctx[h]

\* Faulty variant of the Stop-path resume: the start is never recorded.
StopWakeHsmStateStale(h) == hstate

\* execute.rs:84
StopWakeHsmState(h) ==
    IF StopWakeResumes(h) THEN record_current_start_finished(hstate, h) ELSE hstate

\* execute.rs:68-91 after pause() returned, then the next rt.resume().
StopWake(h) ==
    /\ pc[h] = "stop_wake"
    /\ ctx' = [ctx EXCEPT ![h] = StopWakeContext(h)]
    /\ cmd' = TakeCommand(h)
    /\ satp' = [satp EXCEPT ![h] = IF StopWakeResumes(h) THEN 0 ELSE @]
    /\ hstate' = StopWakeHsmState(h)
    /\ fresh' = [fresh EXCEPT ![h] = IF StopWakeResumes(h) THEN TRUE ELSE @]
    /\ stopping' = [stopping EXCEPT ![h] = IF StopWakeResumes(h) THEN FALSE ELSE @]
    /\ mstatus' = [mstatus EXCEPT ![h] = ResumedMstatus(ctx'[h])]
    /\ pc' = [pc EXCEPT ![h] = "smode"]
    /\ UNCHANGED << pauseRet, prevMsoft, scause, sepc, stvec, stip, mie, boot, msip,
                    clintTime, call, ops, times, ssoft, ipiByS, aux, stack, uart >>

\* Faulty variant of the None arm: the CLINT msip bit is left set.
NoneArmMsipKept(h) == msip

\* execute.rs:96: the IPI the None arm clears.
NoneArmMsip(h) == clear_soft(msip, h)

\* execute.rs:97-101
NoneArmTransfers(h) == should_transfer_trap(ctx[h])

\* execute.rs:92-102, then the next rt.resume().
MachineSoftNone(h) ==
    /\ pc[h] = "msoft_none"
    /\ msip' = NoneArmMsip(h)
    /\ IF NoneArmTransfers(h)
       THEN /\ ctx' = [ctx EXCEPT ![h] = [@ EXCEPT !.mepc = stvec[h],
                                                    !.mstatus = TransferMstatus(mstatus[h])]]
            /\ scause' = [scause EXCEPT ![h] = "SupervisorSoft"]
            /\ sepc' = [sepc EXCEPT ![h] = ctx[h].mepc]
            /\ mstatus' = [mstatus EXCEPT ![h] = ResumedMstatus(ctx'[h])]
            /\ ssoft' = [ssoft EXCEPT ![h] = @ + 1]
            /\ pc' = [pc EXCEPT ![h] = "smode"]
       ELSE /\ pc' = [pc EXCEPT ![h] = "panic_no_command"]
            /\ UNCHANGED << ctx, scause, sepc, mstatus, ssoft >>
    /\ UNCHANGED << pauseRet, prevMsoft, satp, stvec, stip, mie, boot, clintTime,
                    hstate, cmd, call, ops, fresh, stopping, times, ipiByS, aux, stack, uart >>

\* execute.rs:62, 100 and 135: the panics of the execute loop.
PanicSites == {"panic_illegal_state", "panic_no_command", "panic_invalid_instruction"}

\* main.rs:35-40: the panic handler prints and halts in `loop {}`.
on_panic(h) ==
    /\ pc[h] \in PanicSites
    /\ pc' = [pc EXCEPT ![h] = "halted"]
    /\ UNCHANGED << pauseRet, prevMsoft, ctx, mstatus, csrs, mie, boot, msip, clintTime,
                    hstate, cmd, call, ops, ghost, stack, uart >>

\* ------------------------------------------------------------ S-mode kernel
\* The SBI calls the payload makes on hart h: a7, a6 and the arguments.
LifecycleCalls(h) ==
    {[a7 |-> EID_HSM, a6 |-> FID_HART_START, a0 |-> t, a1 |-> r, a2 |-> o] :
        t \in Hart \ {h}, r \in ResumeAddrs, o \in Opaques}
    \cup {[a7 |-> EID_HSM, a6 |-> FID_HART_STOP, a0 |-> 0, a1 |-> 0, a2 |-> 0]}
    \cup {[a7 |-> EID_HSM, a6 |-> FID_HART_GET_STATUS, a0 |-> t, a1 |-> 0, a2 |-> 0] :
            t \in Hart \ {h}}
    \cup {[a7 |-> EID_HSM, a6 |-> FID_HART_SUSPEND, a0 |-> SUSPEND_NON_RETENTIVE,
           a1 |-> r, a2 |-> o] : r \in ResumeAddrs, o \in Opaques}
    \cup {[a7 |-> EID_IPI, a6 |-> 0, a0 |-> 2 ^ t, a1 |-> 0, a2 |-> 0] : t \in Hart \ {h}}

TrapsCalls(h) ==
    IF h # 0 THEN {}
    ELSE {[a7 |-> EID_HSM, a6 |-> FID_HART_SUSPEND, a0 |-> SUSPEND_RETENTIVE,
           a1 |-> 0, a2 |-> 0]}
         \cup {[a7 |-> EID_TIME, a6 |-> 0, a0 |-> v, a1 |-> 0, a2 |-> 0] : v \in TimerValues}
         \cup {[a7 |-> EID_LEGACY_PUTCHAR, a6 |-> 0, a0 |-> 65, a1 |-> 0, a2 |-> 0]}

WakeCalls(h) ==
    IF h = 0
    THEN {[a7 |-> EID_IPI, a6 |-> 0, a0 |-> 2, a1 |-> 0, a2 |-> 0]}
         \cup {[a7 |-> EID_HSM, a6 |-> FID_HART_START, a0 |-> 1, a1 |-> r, a2 |-> o] :
                 r \in ResumeAddrs, o \in Opaques}
    ELSE {[a7 |-> EID_HSM, a6 |-> FID_HART_STOP, a0 |-> 0, a1 |-> 0, a2 |-> 0]}

SbiCalls(h) ==
    CASE kernel = "lifecycle" -> LifecycleCalls(h)
      [] kernel = "traps" -> TrapsCalls(h)
      [] kernel = "wake" -> WakeCalls(h)

\* The instructions of the payload that trap as illegal on hart h.
IllegalWords(h) == IF kernel = "traps" /\ h = 0 THEN {"rdtime", "csrw_mcycle"} ELSE {}

\* The payload has installed its trap vector, page table and interrupt enable.
KernelReady(h) == stvec[h] = TrapVector /\ satp[h] # 0 /\ mstatus[h].sie

\* ecall from S-mode: supervisor-ECALL is not delegated, the runtime yields SbiCall.
SEcall(h) ==
    /\ SRunnable(h)
    /\ "supervisor_env_call" \notin medeleg[h]
    /\ KernelReady(h)
    /\ ops[h] > 0
    /\ \E c \in SbiCalls(h) :
          ctx' = [ctx EXCEPT ![h] = [@ EXCEPT !.a7 = c.a7, !.a6 = c.a6, !.a0 = c.a0,
                                               !.a1 = c.a1, !.a2 = c.a2]]
    /\ ops' = [ops EXCEPT ![h] = @ - 1]
    /\ fresh' = [fresh EXCEPT ![h] = FALSE]
    /\ pc' = [pc EXCEPT ![h] = "sbi_call"]
    /\ UNCHANGED << pauseRet, prevMsoft, mstatus, csrs, mie, boot, msip, clintTime,
                    hstate, cmd, call, stopping, times, ssoft, ipiByS, aux, stack, uart >>

\* An instruction the hart cannot execute: the runtime yields IllegalInstruction.
\* "rdtime" is csrr a0, time; "csrw_mcycle" is test-kernel main.rs:31.
SIllegal(h) ==
    /\ SRunnable(h)
    /\ "illegal_instruction" \notin medeleg[h]
    /\ KernelReady(h)
    /\ ops[h] > 0
    /\ \E i \in IllegalWords(h) : ins' = [ins EXCEPT ![h] = i]
    /\ ops' = [ops EXCEPT ![h] = @ - 1]
    /\ fresh' = [fresh EXCEPT ![h] = FALSE]
    /\ pc' = [pc EXCEPT ![h] = "illegal"]
    /\ UNCHANGED << pauseRet, prevMsoft, ctx, mstatus, csrs, mie, boot, msip, clintTime,
                    hstate, cmd, ans, kernel, stopping, times, ssoft, ipiByS, aux, stack, uart >>

\* test-kernel main.rs:29 and the like: the payload installs its trap vector,
\* turns on paging and enables S-mode interrupts before it does anything else.
SKernelInit(h) ==
    /\ SRunnable(h)
    /\ ~KernelReady(h)
    /\ stvec' = [stvec EXCEPT ![h] = TrapVector]
    /\ \E v \in SatpValues : satp' = [satp EXCEPT ![h] = v]
    /\ mstatus' = [mstatus EXCEPT ![h].sie = TRUE]
    /\ ctx' = [ctx EXCEPT ![h].mstatus.sie = TRUE]
    /\ fresh' = [fresh EXCEPT ![h] = FALSE]
    /\ UNCHANGED << pc, pauseRet, prevMsoft, scause, sepc, stip, mie, boot, msip,
                    clintTime, hstate, cmd, call, ops, stopping, times, ssoft, ipiByS, aux, stack, uart >>

\* The firmware itself meets an instruction the hart cannot execute while it
\* dispatches a call: the trap is taken from M-mode (mstatus.MPP = M, mepc in
\* the firmware image at the base of DRAM) and the runtime yields
\* IllegalInstruction.
MIllegal(h) ==
    /\ pc[h] = "sbi_call"
    /\ kernel = "traps"
    /\ mstatus' = [mstatus EXCEPT ![h].mpp = "M"]
    /\ ctx' = [ctx EXCEPT ![h].mstatus = mstatus'[h], ![h].mepc = 0]
    /\ ins' = [ins EXCEPT ![h] = "csrw_mcycle"]
    /\ pc' = [pc EXCEPT ![h] = "illegal"]
    /\ UNCHANGED << pauseRet, prevMsoft, csrs, mie, boot, msip, clintTime, hstate, cmd,
                    ans, kernel, ops, ghost, stack, uart >>

\* Faulty variant of the MachineSoft yield: the interrupt is also taken while
\* the handler of an SBI call is about to return.
TrapMachineSoftNested(h) ==
    /\ pc[h] \in {"smode", "sbi_ret"}
    /\ MachineSoftPending(h)
    /\ pc' = [pc EXCEPT ![h] = "msoft"]
    /\ unseen' = [unseen EXCEPT ![h] = FALSE]
    /\ UNCHANGED << pauseRet, prevMsoft, ctx, mstatus, csrs, mie, boot, msip, clintTime,
                    hstate, cmd, call, ops, fresh, stopping, times, ssoft, ipiByS,
                    initLog, entryMie, stack, uart >>

\* A pending, enabled machine software interrupt: the runtime yields MachineSoft.
TrapMachineSoft(h) ==
    /\ pc[h] = "smode"
    /\ MachineSoftPending(h)
    /\ pc' = [pc EXCEPT ![h] = "msoft"]
    /\ unseen' = [unseen EXCEPT ![h] = FALSE]
    /\ UNCHANGED << pauseRet, prevMsoft, ctx, mstatus, csrs, mie, boot, msip, clintTime,
                    hstate, cmd, call, ops, fresh, stopping, times, ssoft, ipiByS,
                    initLog, entryMie, stack, uart >>

\* A pending, enabled machine timer interrupt: the runtime yields MachineTimer.
TrapMachineTimer(h) ==
    /\ pc[h] = "smode"
    /\ ~MachineSoftPending(h)
    /\ MachineTimerPending(h)
    /\ pc' = [pc EXCEPT ![h] = "mtimer"]
    /\ UNCHANGED << pauseRet, prevMsoft, ctx, mstatus, csrs, mie, boot, msip, clintTime,
                    hstate, cmd, call, ops, ghost, stack, uart >>

\* ------------------------------------------------------------ rustsbi::ecall
IsCall(h, ext, fid) == pc[h] = "sbi_call" /\ ctx[h].a7 = ext /\ ctx[h].a6 = fid

DispatchFrame == << pauseRet, prevMsoft, ctx, mstatus, csrs, boot, ins, kernel, ops,
                    fresh, times, ssoft >>

\* hart_start: post Start to a stopped target; the IPI follows.
HartStart(h) ==
    /\ IsCall(h, EID_HSM, FID_HART_START)
    /\ LET t == ctx[h].a0 IN
       IF hstate[t] = "STOPPED"
       THEN /\ hstate' = [hstate EXCEPT ![t] = "START_PENDING"]
            /\ cmd' = [cmd EXCEPT ![t] = Start(ctx[h].a1, ctx[h].a2)]
            /\ ans' = [ans EXCEPT ![h] = SbiOk(0)]
            /\ pc' = [pc EXCEPT ![h] = "sbi_ipi"]
       ELSE /\ ans' = [ans EXCEPT ![h] =
                         IF hstate[t] = "STARTED" THEN SbiErr(-6) ELSE SbiErr(-1)]
            /\ pc' = [pc EXCEPT ![h] = "sbi_ret"]
            /\ UNCHANGED << hstate, cmd >>
    /\ UNCHANGED << DispatchFrame, mie, msip, clintTime, stopping, ipiByS, aux, stack, uart >>

\* hart_stop: post Stop to the caller itself; the IPI follows.
HartStop(h) ==
    /\ IsCall(h, EID_HSM, FID_HART_STOP)
    /\ IF hstate[h] = "STARTED"
       THEN /\ hstate' = [hstate EXCEPT ![h] = "STOP_PENDING"]
            /\ cmd' = [cmd EXCEPT ![h] = Stop]
            /\ stopping' = [stopping EXCEPT ![h] = TRUE]
            /\ ans' = [ans EXCEPT ![h] = SbiOk(0)]
            /\ pc' = [pc EXCEPT ![h] = "sbi_ipi"]
       ELSE /\ ans' = [ans EXCEPT ![h] = SbiErr(-1)]
            /\ pc' = [pc EXCEPT ![h] = "sbi_ret"]
            /\ UNCHANGED << hstate, cmd, stopping >>
    /\ UNCHANGED << DispatchFrame, mie, msip, clintTime, ipiByS, aux, stack, uart >>

\* The CLINT IPI that follows a posted command.
IpiTarget(h) == IF ctx[h].a6 = FID_HART_START THEN ctx[h].a0 ELSE h

HsmSendSoft(h) ==
    /\ pc[h] = "sbi_ipi"
    /\ msip' = send_soft(msip, IpiTarget(h))
    /\ ipiByS' = [ipiByS EXCEPT ![IpiTarget(h)] = @ + 1]
    /\ unseen' = [unseen EXCEPT ![IpiTarget(h)] = TRUE]
    /\ pc' = [pc EXCEPT ![h] = "sbi_ret"]
    /\ UNCHANGED << DispatchFrame, mie, clintTime, hstate, cmd, ans, stopping,
                    initLog, entryMie, stack, uart >>

\* hart_get_status: a snapshot of the peer's state.
HartGetStatus(h) ==
    /\ IsCall(h, EID_HSM, FID_HART_GET_STATUS)
    /\ ans' = [ans EXCEPT ![h] = SbiOk(HsmCode(hstate[ctx[h].a0]))]
    /\ pc' = [pc EXCEPT ![h] = "sbi_ret"]
    /\ UNCHANGED << DispatchFrame, mie, msip, clintTime, hstate, cmd, stopping, ipiByS, aux, stack, uart >>

\* hart_suspend: a retentive kind is a plain wfi; a non-retentive kind keeps
\* Start{resume_addr, opaque} for the caller and waits in pause().
HartSuspend(h) ==
    /\ IsCall(h, EID_HSM, FID_HART_SUSPEND)
    /\ IF ctx[h].a0 = SUSPEND_NON_RETENTIVE
       THEN /\ cmd' = [cmd EXCEPT ![h] = Start(ctx[h].a1, ctx[h].a2)]
            /\ hstate' = [hstate EXCEPT ![h] = "SUSPENDED"]
            /\ pauseRet' = [pauseRet EXCEPT ![h] = "suspend"]
            /\ pc' = [pc EXCEPT ![h] = "pause_clear"]
            /\ UNCHANGED ans
       ELSE /\ ans' = [ans EXCEPT ![h] = SbiOk(0)]
            /\ pc' = [pc EXCEPT ![h] = "sbi_ret"]
            /\ UNCHANGED << cmd, hstate, pauseRet >>
    /\ UNCHANGED << prevMsoft, ctx, mstatus, csrs, boot, ins, kernel, ops, fresh,
                    times, mie, msip, clintTime, stopping, ssoft, ipiByS, aux, stack, uart >>

\* hart_suspend after the wake: the sentinel tells the execute loop to resume.
HartSuspendWake(h) ==
    /\ pc[h] = "suspend_wake"
    /\ ans' = [ans EXCEPT ![h] = [error |-> SENTINEL, value |-> 0]]
    /\ pc' = [pc EXCEPT ![h] = "sbi_ret"]
    /\ UNCHANGED << DispatchFrame, mie, msip, clintTime, hstate, cmd, stopping, ipiByS, aux, stack, uart >>

\* send_ipi(hart_mask, hart_mask_base): the bound CLINT raises msip of each target.
IpiTargets(mask, base) == {t \in Hart : t >= base /\ (mask \div (2 ^ (t - base))) % 2 = 1}

SendIpi(h) ==
    /\ IsCall(h, EID_IPI, 0)
    /\ msip' = [t \in Hart |-> msip[t] \/ t \in IpiTargets(ctx[h].a0, ctx[h].a1)]
    /\ ipiByS' = [t \in Hart |->
                    IF t \in IpiTargets(ctx[h].a0, ctx[h].a1) THEN ipiByS[t] + 1 ELSE ipiByS[t]]
    /\ unseen' = [t \in Hart |-> unseen[t] \/ t \in IpiTargets(ctx[h].a0, ctx[h].a1)]
    /\ ans' = [ans EXCEPT ![h] = SbiOk(0)]
    /\ pc' = [pc EXCEPT ![h] = "sbi_ret"]
    /\ UNCHANGED << DispatchFrame, mie, clintTime, hstate, cmd, stopping, initLog,
                    entryMie, stack, uart >>

\* set_timer(stime_value): the bound CLINT arms mtimecmp; STIP is withdrawn
\* and MTIE set again.
SetTimer(h) ==
    /\ IsCall(h, EID_TIME, 0)
    /\ mtimecmp' = [mtimecmp EXCEPT ![h] = ctx[h].a0]
    /\ stip' = [stip EXCEPT ![h] = FALSE]
    /\ mie' = [mie EXCEPT ![h].mtie = TRUE]
    /\ ans' = [ans EXCEPT ![h] = SbiOk(0)]
    /\ pc' = [pc EXCEPT ![h] = "sbi_ret"]
    /\ UNCHANGED << pauseRet, prevMsoft, ctx, mstatus, satp, scause, sepc, stvec, boot,
                    ins, kernel, ops, fresh, times, msip, mtime, hstate, cmd,
                    stopping, ssoft, ipiByS, aux, stack, uart >>

\* Any other extension: the (error, value) pair rustsbi::ecall hands back is an
\* input of the execute loop, which tests ans.error alone.
OtherReturns == {SbiOk(0), SbiErr(-2), SbiErr(SENTINEL)}

OtherCall(h) ==
    /\ pc[h] = "sbi_call"
    /\ ctx[h].a7 \notin {EID_HSM, EID_IPI, EID_TIME}
    /\ \E r \in OtherReturns : ans' = [ans EXCEPT ![h] = r]
    /\ pc' = [pc EXCEPT ![h] = "sbi_ret"]
    /\ UNCHANGED << DispatchFrame, mie, msip, clintTime, hstate, cmd, stopping, ipiByS, aux, stack, uart >>

\* ------------------------------------------------------------------ UART
\* The bytes the console is given.
Bytes == {65, 66}

\* uart.rs:105, LSR.THRE: the transmitter holds nothing.
LsrThre == thr = << >>

\* Bytes handed to the transmitter so far.
Written == Len(thr) + Len(wire) + Len(dropped)

\* serial_out(REG_THR, byte): the transmitter takes the byte while it has room;
\* when it is full either the new byte or the newest held one is discarded.
ThrStore(byte) ==
    IF Len(thr) < TxDepth
    THEN thr' = Append(thr, byte) /\ UNCHANGED dropped
    ELSE \/ dropped' = Append(dropped, byte) /\ UNCHANGED thr
         \/ /\ dropped' = Append(dropped, thr[Len(thr)])
            /\ thr' = [thr EXCEPT ![Len(thr)] = byte]

\* uart.rs:62-65, <Uart as Write<u8>>::write: the byte is stored, whatever
\* the line status is, and the call returns Ok.
UartWrite ==
    /\ Written < MaxBytes
    /\ \E byte \in Bytes : ThrStore(byte)
    /\ UNCHANGED << wire, flushed, harts >>

\* uart.rs:68-74, <Uart as Write<u8>>::flush
UartFlush ==
    /\ flushed' = IF LsrThre THEN "Ok" ELSE "WouldBlock"
    /\ UNCHANGED << thr, wire, dropped, harts >>

\* The transmitter shifts its oldest byte out on the line.
UartShift ==
    /\ thr # << >>
    /\ wire' = Append(wire, Head(thr))
    /\ thr' = Tail(thr)
    /\ UNCHANGED << flushed, dropped, harts >>

UartNext == UartWrite \/ UartFlush \/ UartShift

\* The UART driver under any sequence of write and flush calls.
UartSpec == Init /\ [][UartNext]_vars

\* ------------------------------------------------------------ specification
HartStep(h) ==
    \/ Entry(h) \/ EntryLoop(h)
    \/ RustMain(h) \/ InitBss(h) \/ InitHeap(h) \/ InitRustsbiStdio(h)
    \/ InitRustsbiClint(h) \/ BootSendSoft(h) \/ SetPmp(h) \/ DelegateInterruptException(h)
    \/ PauseClearSoft(h) \/ PauseClearMsoft(h) \/ PauseSetMsoft(h) \/ PauseWfi(h)
    \/ PauseCheck(h) \/ PauseRestore(h) \/ PauseClearSoftEnd(h)
    \/ ExecuteSupervisorEnter(h)
    \/ SEcall(h) \/ SIllegal(h) \/ SKernelInit(h)
    \/ TrapMachineSoft(h) \/ TrapMachineTimer(h) \/ MIllegal(h)
    \/ HartStart(h) \/ HartStop(h) \/ HsmSendSoft(h) \/ HartGetStatus(h)
    \/ HartSuspend(h) \/ HartSuspendWake(h) \/ SendIpi(h) \/ SetTimer(h) \/ OtherCall(h)
    \/ SbiReturn(h) \/ IllegalInstruction(h) \/ MachineTimer(h)
    \/ MachineSoft(h) \/ MachineSoftNone(h) \/ StopWake(h) \/ on_panic(h)

Next == Tick \/ \E h \in Hart : HartStep(h)

Spec == Init /\ [][Next]_vars

\* Every hart keeps executing: each hart's next step is eventually taken.
FairSpec == Spec /\ \A h \in Hart : WF_vars(HartStep(h))


\* ================================================================ claims
BootParked(h) ==
    pc[h] \in EntryStub \cup {"boot"} \/ (InPause(h) /\ pauseRet[h] = "boot")

\* C1: every SbiCall yield ends in exactly one of (a) mepc advanced by 4 with
\* (a0, a1) = (error, value), or (b) mepc = the Start address with
\* (a0, a1) = (hart id, opaque); this for every dispatch result, error 0x233
\* with no Start in the mailbox included.
C1_ExactlyOneReturn ==
    [][\A h \in Hart :
         (pc[h] = "sbi_ret" /\ pc'[h] = "smode") =>
            LET advanced == /\ ctx'[h].mepc = ctx[h].mepc + 4
                            /\ ctx'[h].a0 = ans[h].error
                            /\ ctx'[h].a1 = ans[h].value
                resumed  == /\ last_command(h).tag = "Start"
                            /\ ctx'[h].mepc = last_command(h).addr
                            /\ ctx'[h].a0 = h
                            /\ ctx'[h].a1 = last_command(h).opaque
            IN  advanced # resumed]_vars

\* C2: when the dispatch returns error 0x233 and the mailbox holds
\* Start{addr, opaque}, the hart resumes S-mode with mepc = addr, a0 = hart id,
\* a1 = opaque, satp = 0 and sstatus.SIE = 0, and ctx.mstatus is the mstatus
\* read after SIE was cleared.
C2_NonRetentiveResume ==
    [][\A h \in Hart :
         (pc[h] = "sbi_ret" /\ ans[h].error = SENTINEL /\ last_command(h).tag = "Start"
            /\ pc'[h] # "sbi_ret") =>
            /\ pc'[h] = "smode"
            /\ ctx'[h].mepc = last_command(h).addr
            /\ ctx'[h].a0 = h
            /\ ctx'[h].a1 = last_command(h).opaque
            /\ satp'[h] = 0
            /\ mstatus'[h].sie = FALSE
            /\ ctx'[h].mstatus = [mstatus[h] EXCEPT !.sie = FALSE]]_vars

\* A hart that had paging and SIE on sits at its resume address after the
\* sentinel return.
C2_Witness ==
    \E h \in Hart :
        /\ pc[h] = "smode" /\ fresh[h] /\ ans[h].error = SENTINEL
        /\ ctx[h].mepc \in ResumeAddrs /\ ctx[h].a1 \in Opaques
        /\ satp[h] = 0 /\ ~mstatus[h].sie /\ ~ctx[h].mstatus.sie

\* C3: an illegal instruction from S-mode that the emulator does not handle
\* does not panic the firmware; it reaches S-mode as an exception with
\* scause = IllegalInstruction and sepc = the faulting pc, resuming at stvec.
C3_IllegalDelegated ==
    [][\A h \in Hart :
         (pc[h] = "illegal" /\ ~emulate_rdtime(ins[h]) /\ ctx[h].mstatus.mpp = "S"
            /\ pc'[h] # "illegal") =>
            /\ pc'[h] = "smode"
            /\ scause'[h] = "IllegalInstruction"
            /\ sepc'[h] = ctx[h].mepc
            /\ ctx'[h].mepc = stvec[h]]_vars

C3_Witness ==
    \E h \in Hart :
        /\ pc[h] = "smode" /\ ins[h] = "csrw_mcycle"
        /\ scause[h] = "IllegalInstruction"
        /\ sepc[h] = SUPERVISOR_ENTRY /\ ctx[h].mepc = TrapVector

\* C4: an S-mode read of the time CSR traps and is emulated: no exception
\* reaches S-mode, the destination register receives mtime, mepc moves past
\* the instruction, and a later read never returns less than an earlier one.
C4_RdtimeEmulated ==
    [][\A h \in Hart :
         (pc[h] = "illegal" /\ ins[h] = "rdtime" /\ pc'[h] # "illegal") =>
            /\ pc'[h] = "smode"
            /\ ctx'[h].a0 = mtime
            /\ ctx'[h].mepc = ctx[h].mepc + 4
            /\ scause'[h] = scause[h] /\ sepc'[h] = sepc[h]
            /\ lastTime[h] <= ctx'[h].a0]_vars

\* Two reads on one hart, the second strictly later than the first.
C4_Witness ==
    \E h \in Hart :
        /\ pc[h] = "smode" /\ ins[h] = "rdtime"
        /\ prevTime[h] >= 0 /\ lastTime[h] > prevTime[h]
        /\ ctx[h].a0 = lastTime[h] /\ scause[h] = "none"

C6_PauseLeaves ==
    \A h \in Hart :
        (pc[h] \in {"pause_wfi", "pause_check"} /\ msip[h]) ~> ~InPause(h)

C6_Witness ==
    \E h \in Hart : pc[h] = "pause_restore" /\ msip[h] /\ pauseRet[h] = "stop"

\* C7: after hart_stop the calling hart runs no S-mode instruction until a
\* later Start is applied to it.
C7_NoReturnAfterStop ==
    \A h \in Hart : stopping[h] => ~SRunnable(h)

\* C8: once a hart sits at a start or resume address, its HSM state is STARTED
\* before it runs any S-mode instruction, and a status query by another hart
\* returns 0.
C8_StartedBeforeSMode ==
    /\ [](\A h \in Hart : fresh[h] => (hstate[h] = "STARTED" /\ HsmCode(hstate[h]) = 0))
    /\ [][\A g \in Hart :
            (IsCall(g, EID_HSM, FID_HART_GET_STATUS) /\ pc'[g] = "sbi_ret"
               /\ ctx[g].a0 \in Hart /\ fresh[ctx[g].a0]) =>
               ans'[g] = SbiOk(0)]_vars

\* A hart resumed at a Start address, not yet run, while the other hart's
\* status query has returned 0.
C8_Witness ==
    \E h, g \in Hart :
        /\ g # h /\ fresh[h] /\ pc[h] = "smode" /\ ctx[h].mepc \in ResumeAddrs
        /\ pc[g] = "sbi_ret" /\ ctx[g].a6 = FID_HART_GET_STATUS /\ ctx[g].a0 = h
        /\ ans[g] = SbiOk(0)

\* C9 as stated: hart 0 enters S-mode at 0x8020_0000 with a0 = 0 and a1 = the
\* DTB address; hart 1 leaves its boot pause() only after S-mode software
\* sent it an IPI.
C9_Hart1StaysPaused ==
    /\ [][(pc[0] = "exec_enter" /\ pc'[0] = "smode") =>
            (ctx'[0].mepc = SUPERVISOR_ENTRY /\ ctx'[0].a0 = 0
               /\ ctx'[0].a1 = DEVICE_TREE)]_vars
    /\ [](~BootParked(1) => ipiByS[1] > 0)

\* C9 amended: every hart enters S-mode at 0x8020_0000 with a0 = its hart id
\* and a1 = the DTB address; hart 1 leaves its boot pause() only after hart 0's
\* boot code reached the IPI it sends to hart 1.
C9_ColdBoot ==
    /\ [][\A h \in Hart :
            (pc[h] = "exec_enter" /\ pc'[h] = "smode") =>
               (ctx'[h].mepc = SUPERVISOR_ENTRY /\ ctx'[h].a0 = h
                  /\ ctx'[h].a1 = DEVICE_TREE)]_vars
    /\ [](~BootParked(1) => pc[0] \notin BootInit)

\* Hart 1 in S-mode at the entry point though no S-mode software sent an IPI.
C9_Witness ==
    /\ pc[1] = "smode" /\ ipiByS[1] = 0
    /\ ctx[1].mepc = SUPERVISOR_ENTRY /\ ctx[1].a0 = 1 /\ ctx[1].a1 = DEVICE_TREE
    /\ pc[0] = "smode" /\ ctx[0].a0 = 0 /\ ctx[0].a1 = DEVICE_TREE

\* C10: each pmpaddr is (base >> 2) | ((size >> 2) - 1), and the NAPOT region a
\* hart decodes from it covers, and equals, the stated range of its entry.
C10_PmpRegions ==
    \A h \in Hart : pmp[h] # NoPmp =>
        \A i \in 1 .. 3 :
            LET w == pmp[h].addr[i]
                r == PmpStated[i]
            IN  /\ w = WordOr(ShiftRight(r.base, 2), WordDec(ShiftRight(r.size, 2)))
                /\ InNapot(r.base, w) /\ InNapot(LastByte(r), w)
                /\ NapotBase(w) = r.base
                /\ Pow2(NapotLogSize(w)) = r.size


\* main.rs:80-81 have run on hart h.
Delegated(h) == pc[h] \notin (BootInit \cup {"set_pmp", "delegate"}) /\ ~BootParked(h)

\* C11: after delegate_interrupt_exception mideleg holds SEIP, STIP, SSIP, UEIP,
\* UTIP, USIP; medeleg holds instruction-misaligned, breakpoint, user-ECALL, the
\* three page faults and the three access faults; mie gets MEIE and MSIE and
\* MTIE is not set by boot. Illegal-instruction and supervisor-ECALL are never
\* delegated, so both trap to M-mode.
C11_Delegation ==
    /\ [](\A h \in Hart : Delegated(h) =>
            /\ mideleg[h] = {"sext", "stimer", "ssoft", "uext", "utimer", "usoft"}
            /\ medeleg[h] = {"instruction_misaligned", "breakpoint", "user_env_call",
                             "instruction_page_fault", "load_page_fault",
                             "store_page_fault", "instruction_fault", "load_fault",
                             "store_fault"}
            /\ mie[h].meie
            /\ "illegal_instruction" \notin medeleg[h]
            /\ "supervisor_env_call" \notin medeleg[h])
    /\ [][\A h \in Hart :
            (pc[h] = "delegate" /\ pc'[h] # "delegate") =>
               (mie'[h].meie /\ mie'[h].msie /\ ~mie'[h].mtie)]_vars
    /\ [][\A h \in Hart :
            (pc[h] = "smode" /\ ops'[h] # ops[h]) => pc'[h] \in {"sbi_call", "illegal"}]_vars

\* A delegated hart whose illegal instruction is being handled in M-mode.
C11_Witness ==
    \E h \in Hart :
        /\ Delegated(h) /\ pc[h] = "illegal" /\ ins[h] = "csrw_mcycle"
        /\ mie[h].meie /\ mie[h].msie /\ ~mie[h].mtie

\* C12: the execute loop never unwinds: every handler ends by resuming S-mode or
\* by panicking, and a handled error either changes the supervisor context
\* before S-mode is re-entered or panics: an SBI call that returns an error
\* leaves a context different from the one it trapped with, and a trap that is
\* not fatal leaves mepc past the emulated instruction or at stvec.
C12_NeverUnwinds ==
    [][\A h \in Hart :
         (pc[h] \in {"sbi_ret", "illegal", "mtimer", "msoft_none", "stop_wake"}
            /\ pc'[h] # pc[h]) =>
            /\ pc'[h] \in {"smode"} \cup PanicSites
            /\ (pc[h] = "sbi_ret" /\ ans[h].error # 0) => ctx'[h] # ctx[h]
            /\ (pc[h] \in {"illegal", "msoft_none"}) =>
                  \/ pc'[h] \in PanicSites
                  \/ ctx'[h].mepc = stvec[h]
                  \/ ctx'[h].mepc = ctx[h].mepc + 4]_vars

\* C13: pause() loses no wake-up: an IPI raised for the hart before pause()
\* clears mip.MSIP, its initial CLINT clear included, or while the hart is in
\* the loop, is still pending for the wfi loop to observe.
C13_NoLostWakeup ==
    \A h \in Hart :
        (pc[h] \in {"pause_mip", "pause_mie", "pause_wfi", "pause_check"} /\ unseen[h])
            => MipMsoft(h)

\* C14: a MachineSoft yield that finds Stop records the hart as stopped and
\* enters pause(); S-mode is not resumed before pause() has returned; when a
\* Start{addr, opaque} is found after the wake, the hart is rewritten as in
\* the non-retentive resume: satp = 0, sstatus.SIE = 0 (and ctx.mstatus read
\* after that), state recorded as started, a0 = hart id, a1 = opaque,
\* mepc = addr.
C14_StopThenPause ==
    /\ [][\A h \in Hart :
            (pc[h] = "msoft" /\ last_command(h).tag = "Stop" /\ pc'[h] # "msoft") =>
               (hstate'[h] = "STOPPED" /\ pc'[h] = "pause_clear")]_vars
    /\ [][\A h \in Hart : InPause(h) => pc'[h] # "smode"]_vars
    /\ [](\A h \in Hart :
            (InPause(h) /\ pauseRet[h] = "stop") => hstate[h] \in {"STOPPED", "START_PENDING"})
    /\ [][\A h \in Hart :
            (pc[h] = "stop_wake" /\ last_command(h).tag = "Start" /\ pc'[h] # "stop_wake") =>
               /\ pc'[h] = "smode"
               /\ satp'[h] = 0
               /\ ~mstatus'[h].sie
               /\ ctx'[h].mstatus = [mstatus[h] EXCEPT !.sie = FALSE]
               /\ hstate'[h] = "STARTED"
               /\ ctx'[h].a0 = h
               /\ ctx'[h].a1 = last_command(h).opaque
               /\ ctx'[h].mepc = last_command(h).addr]_vars

\* A hart that called hart_stop sits at the address of a later hart_start.
C14_Witness ==
    \E h \in Hart :
        /\ pc[h] = "smode" /\ fresh[h] /\ pauseRet[h] = "stop" /\ ~stopping[h]
        /\ ctx[h].a6 = FID_HART_STOP /\ ctx[h].mepc \in ResumeAddrs
        /\ ctx[h].a0 = h /\ ctx[h].a1 \in Opaques
        /\ satp[h] = 0 /\ ~mstatus[h].sie /\ hstate[h] = "STARTED"

\* C15: a MachineSoft yield on a running hart that finds Start in its mailbox
\* panics: the start address is never applied, the hart never resumes S-mode
\* again, and it halts in the panic handler's loop (no reset: nothing of the
\* machine changes any more on its behalf).
C15_StartWhileRunningPanics ==
    /\ [][\A h \in Hart :
            (pc[h] = "msoft" /\ last_command(h).tag = "Start" /\ pc'[h] # "msoft") =>
               (pc'[h] = "panic_illegal_state" /\ ctx'[h] = ctx[h]
                  /\ hstate'[h] = hstate[h] /\ satp'[h] = satp[h])]_vars
    /\ [][\A h \in Hart :
            pc[h] \in PanicSites \cup {"halted"} =>
               /\ pc'[h] = "halted" \/ pc'[h] = pc[h]
               /\ ctx'[h] = ctx[h] /\ mstatus'[h] = mstatus[h] /\ satp'[h] = satp[h]
               /\ hstate'[h] = hstate[h] /\ mie'[h] = mie[h] /\ pmp'[h] = pmp[h]]_vars

\* The hart was handed Start while it ran at the boot entry, and has halted
\* there; the other hart still runs.
C15_Witness ==
    \E h, g \in Hart :
        /\ pc[h] = "halted" /\ MipMsoft(h) /\ cmd[h] = NoCmd
        /\ ctx[h].mepc \notin ResumeAddrs /\ pc[g] = "smode"
        /\ ctx[g].a6 = FID_HART_START /\ ans[g] = SbiOk(0)

\* C16: an IllegalInstruction yield ends in exactly one of three ways, tried in
\* this order: the rdtime emulation succeeds (nothing transferred, no panic);
\* else, if the trap may be transferred, S-mode receives it as
\* IllegalInstruction; else the hart panics as an illegal instruction from
\* machine level. A trap taken from M-mode (MPP = M) is never transferred.
C16_IllegalThreeWays ==
    [][\A h \in Hart :
         (pc[h] = "illegal" /\ pc'[h] # "illegal") =>
            LET emulated == /\ pc'[h] = "smode"
                            /\ ctx'[h].a0 = mtime /\ ctx'[h].mepc = ctx[h].mepc + 4
                            /\ scause'[h] = scause[h] /\ sepc'[h] = sepc[h]
                transferred == /\ pc'[h] = "smode"
                               /\ scause'[h] = "IllegalInstruction"
                               /\ sepc'[h] = ctx[h].mepc
                               /\ ctx'[h].mepc = stvec[h] /\ ctx'[h].a0 = ctx[h].a0
                panicked == /\ pc'[h] = "panic_invalid_instruction"
                            /\ ctx'[h] = ctx[h]
                            /\ scause'[h] = scause[h] /\ sepc'[h] = sepc[h]
            IN  /\ emulate_rdtime(ins[h]) => (emulated /\ ~transferred /\ ~panicked)
                /\ (~emulate_rdtime(ins[h]) /\ ctx[h].mstatus.mpp # "M") =>
                      (transferred /\ ~emulated /\ ~panicked)
                /\ (~emulate_rdtime(ins[h]) /\ ctx[h].mstatus.mpp = "M") =>
                      (panicked /\ ~emulated /\ ~transferred)]_vars

\* A hart whose read of time was emulated earlier has panicked on an illegal
\* instruction taken from M-mode.
C16_Witness ==
    \E h \in Hart :
        /\ pc[h] = "panic_invalid_instruction" /\ ctx[h].mstatus.mpp = "M"
        /\ lastTime[h] >= 0 /\ scause[h] = "none"

\* C17 as stated: a machine-level trap is redirected to S-mode (an illegal
\* instruction as scause 2, a machine software interrupt as SupervisorSoft)
\* only if the bit of that cause is set in medeleg / mideleg as configured at
\* boot; with the bit clear the trap is fatal and the hart panics.
C17_DelegationBitGuard ==
    [][\A h \in Hart :
         /\ (pc[h] = "illegal" /\ ~emulate_rdtime(ins[h]) /\ pc'[h] # "illegal") =>
               IF "illegal_instruction" \in medeleg[h]
               THEN pc'[h] = "smode" /\ scause'[h] = "IllegalInstruction"
               ELSE pc'[h] \in PanicSites
         /\ (pc[h] = "msoft_none" /\ pc'[h] # "msoft_none") =>
               IF "ssoft" \in mideleg[h]
               THEN pc'[h] = "smode" /\ scause'[h] = "SupervisorSoft"
               ELSE pc'[h] \in PanicSites]_vars

\* C17 amended: a machine-level trap is redirected to S-mode only if it was
\* taken from below M-mode (mstatus.MPP # M), whatever medeleg holds: an
\* illegal instruction from S-mode is redirected as scause 2 with its medeleg
\* bit clear; a trap taken from M-mode is fatal and the hart panics.
C17_PrivilegeGuard ==
    [][\A h \in Hart :
         /\ (pc[h] = "illegal" /\ ~emulate_rdtime(ins[h]) /\ pc'[h] # "illegal") =>
               IF ctx[h].mstatus.mpp # "M"
               THEN /\ pc'[h] = "smode" /\ scause'[h] = "IllegalInstruction"
                    /\ "illegal_instruction" \notin medeleg[h]
               ELSE pc'[h] = "panic_invalid_instruction" /\ scause'[h] = scause[h]
         /\ (pc[h] = "msoft_none" /\ pc'[h] # "msoft_none") =>
               IF ctx[h].mstatus.mpp # "M"
               THEN pc'[h] = "smode" /\ scause'[h] = "SupervisorSoft"
               ELSE pc'[h] = "panic_no_command" /\ scause'[h] = scause[h]
         /\ (scause'[h] # scause[h]) => ctx[h].mstatus.mpp # "M"]_vars

\* One hart received an illegal instruction with the medeleg bit clear; later
\* it halted on one taken from M-mode.
C17_Witness ==
    \E h \in Hart :
        /\ pc[h] = "halted" /\ ctx[h].mstatus.mpp = "M"
        /\ scause[h] = "IllegalInstruction" /\ "illegal_instruction" \notin medeleg[h]

\* C18: handling a MachineTimer yield sets mip.STIP, clears mie.MTIE and
\* changes nothing else: the supervisor context, the HSM state and the mailbox
\* stay as they are, S-mode resumes at the interrupted instruction, and no
\* further MachineTimer yield occurs until a set_timer call sets MTIE again.
C18_MachineTimerFrame ==
    /\ [][\A h \in Hart :
            (pc[h] = "mtimer" /\ pc'[h] # "mtimer") =>
               /\ pc'[h] = "smode"
               /\ stip'[h] /\ ~mie'[h].mtie
               /\ mie'[h].msie = mie[h].msie /\ mie'[h].meie = mie[h].meie
               /\ ctx'[h] = ctx[h] /\ mstatus'[h] = mstatus[h]
               /\ hstate' = hstate /\ cmd' = cmd
               /\ satp'[h] = satp[h] /\ scause'[h] = scause[h] /\ sepc'[h] = sepc[h]
               /\ stvec'[h] = stvec[h] /\ msip' = msip /\ mtimecmp' = mtimecmp]_vars
    /\ [][\A h \in Hart : (pc[h] # "mtimer" /\ pc'[h] = "mtimer") => mie[h].mtie]_vars
    /\ [][\A h \in Hart :
            (~mie[h].mtie /\ mie'[h].mtie) => IsCall(h, EID_TIME, 0)]_vars

\* The timer of a hart has fired and was handed to S-mode; the comparator is
\* still expired and the hart runs S-mode again.
C18_Witness ==
    \E h \in Hart :
        /\ pc[h] = "smode" /\ stip[h] /\ ~mie[h].mtie /\ MipMtimer(h)
        /\ ctx[h].a7 = EID_TIME /\ SRunnable(h)

\* C19: the global initialisation runs once, on hart 0 only, in the order
\* BSS/data, heap, stdio provider, CLINT IPI and timer providers: no provider
\* is bound before the heap is set up or bound twice; and no other hart is
\* past pause() before hart 0 has bound the providers and sent the release
\* IPI.
C19_GlobalInitOnce ==
    /\ [](\E n \in 0 .. 5 :
            initLog = SubSeq(<< "bss", "heap", "stdio", "ipi", "timer" >>, 1, n))
    /\ [][initLog' # initLog => (pc'[0] # pc[0] /\ pc[0] \in BootInit
                                   /\ \A h \in Hart \ {0} : pc'[h] = pc[h])]_vars
    /\ [](pc[0] \notin BootInit =>
            initLog = << "bss", "heap", "stdio", "ipi", "timer" >>)
    /\ [](\A h \in Hart \ {0} :
            ~BootParked(h) =>
               /\ initLog = << "bss", "heap", "stdio", "ipi", "timer" >>
               /\ pc[0] \notin BootInit)

\* Hart 1 has just returned from its boot pause() to set_pmp.
C19_Witness ==
    /\ pc[1] = "set_pmp" /\ pmp[1] = NoPmp
    /\ initLog = << "bss", "heap", "stdio", "ipi", "timer" >>
    /\ pc[0] \notin BootInit

\* C20: pause() returns only after it has observed mip.MSIP set; on return
\* mie.MSIE is what it was when pause() was entered and the hart's CLINT
\* soft-pending bit is clear; pause() changes no other interrupt-enable bit.
C20_PauseFrame ==
    /\ [][\A h \in Hart :
            (pc[h] # "pause_restore" /\ pc'[h] = "pause_restore") =>
               (pc[h] = "pause_check" /\ MipMsoft(h))]_vars
    /\ [][\A h \in Hart :
            (pc[h] # "pause_clear2" /\ pc'[h] = "pause_clear2") =>
               pc[h] = "pause_restore"]_vars
    /\ [][\A h \in Hart :
            (InPause(h) /\ ~InPause(h)') =>
               (pc[h] = "pause_clear2" /\ mie'[h] = entryMie[h] /\ ~msip'[h])]_vars
    /\ [](\A h \in Hart :
            (InPause(h) /\ pc[h] # "pause_clear") =>
               (mie[h].mtie = entryMie[h].mtie /\ mie[h].meie = entryMie[h].meie))

\* Hart 1 is back from its boot pause(): MSIE, clear on entry and set for the
\* loop, is clear again, and so is the hart's msip.
C20_Witness ==
    /\ pc[1] = "set_pmp" /\ pauseRet[1] = "boot"
    /\ ~entryMie[1].msie /\ ~mie[1].msie /\ ~msip[1]

\* The stack range [base + h*SIZE, base + (h+1)*SIZE) the entry stub gives hart h.
StackLow(h) == sp[h] - PER_HART_STACK_SIZE

\* C21: for each hart id h in {0, 1} the entry stub's add loop terminates with
\* sp = SBI_STACK + (h + 1) * PER_HART_STACK_SIZE; that top lies within the
\* SBI_STACK array of 2 * PER_HART_STACK_SIZE bytes, and the stack ranges of
\* the two harts are disjoint.
C21_EntryStack ==
    /\ \A h \in Hart : <>(pc[h] \notin EntryStub)
    /\ [](\A h \in Hart :
            pc[h] \notin EntryStub =>
               /\ sp[h] = SBI_STACK + (h + 1) * PER_HART_STACK_SIZE
               /\ StackLow(h) >= SBI_STACK
               /\ sp[h] <= SBI_STACK + SBI_STACK_SIZE)
    /\ [](\A g, h \in Hart :
            (g # h /\ pc[g] \notin EntryStub /\ pc[h] \notin EntryStub) =>
               (sp[g] <= StackLow(h) \/ sp[h] <= StackLow(g)))

\* Both harts have left the entry stub, hart 1 after two rounds of the loop.
C21_Witness ==
    /\ \A h \in Hart : pc[h] \notin EntryStub /\ t2[h] = 0
    /\ sp[1] = SBI_STACK + SBI_STACK_SIZE
    /\ sp[0] = SBI_STACK + PER_HART_STACK_SIZE

\* C22: UART transmit polls LSR.THRE: a byte is stored into the transmit
\* holding register only when LSR.THRE is set, so for any sequence of write and
\* flush calls no byte is stored while the previous one is still held, and no
\* byte handed to the transmitter is discarded.
C22_TxPollsThre ==
    /\ [][(Len(thr') + Len(wire') + Len(dropped') > Written) => LsrThre]_vars
    /\ [](dropped = << >>)

\* C23: a hart never executes S-mode code while its HSM state is recorded as
\* stopped: once the MachineSoft/Stop path has recorded the stop and pause()
\* has returned, the hart is back in S-mode only after a Start command was
\* found and the state was recorded as started; a wake-up IPI with no Start in
\* the mailbox does not resume the old S-mode context.
C23_NoSModeWhileStopped ==
    \A h \in Hart : pc[h] = "smode" => hstate[h] # "STOPPED"

\* Hart g has posted a command for hart h and has not raised the IPI yet.
IpiOnItsWay(h) == \E g \in Hart \ {h} : pc[g] = "sbi_ipi" /\ IpiTarget(g) = h

\* C24: no HSM command is stranded by the no-command MachineSoft path: when
\* another hart posts a command to hart B and then raises B's CLINT IPI, at any
\* point relative to B's read of the mailbox and B's clear of its CLINT
\* soft-pending bit, the IPI that signals the command is never cleared before
\* the command has been read.
C24_NoStrandedCommand ==
    [][\A h \in Hart :
         (pc[h] = "msoft_none" /\ pc'[h] # "msoft_none" /\ msip[h] /\ ~msip'[h]) =>
            (cmd[h].tag = "None" \/ IpiOnItsWay(h))]_vars

\* C25: at boot hart 1 is eventually released: in every interleaving of the two
\* harts, once hart 0 has executed clint.send_soft(1), hart 1 eventually
\* returns from pause() and reaches execute_supervisor, also when the IPI is
\* sent before hart 1 has run the initial clear_soft / clear_msoft of pause().
C25_Hart1Released ==
    (pc[0] \notin BootInit) ~> Delegated(1)

\* The fields of the SupervisorContext a normal return may change.
ReturnFields == {"a0", "a1", "mepc"}

\* C26: an SBI call takes its extension id from a7, its function id from a6
\* and its arguments from a0.. as they were at the trap, and a normally
\* returning call (error # 0x233) changes only a0, a1 and mepc of the
\* SupervisorContext: every other register of it and ctx.mstatus are the same
\* when S-mode resumes as when it trapped.
C26_NormalReturnFrame ==
    /\ [][\A h \in Hart :
            (pc[h] \in {"sbi_call", "sbi_ipi"} /\ pc'[h] \in {"sbi_call", "sbi_ipi", "sbi_ret"})
               => ctx'[h] = ctx[h]]_vars
    /\ [][\A h \in Hart :
            (pc[h] = "sbi_call" /\ pc'[h] = "sbi_ipi") =>
               /\ ctx[h].a7 = EID_HSM
               /\ ctx[h].a6 = FID_HART_START =>
                     cmd'[ctx[h].a0] = Start(ctx[h].a1, ctx[h].a2)
               /\ ctx[h].a6 # FID_HART_START =>
                     (ctx[h].a6 = FID_HART_STOP /\ cmd'[h] = Stop)]_vars
    /\ [][\A h \in Hart :
            (pc[h] = "sbi_call" /\ mtimecmp'[h] # mtimecmp[h]) =>
               (ctx[h].a7 = EID_TIME /\ mtimecmp'[h] = ctx[h].a0)]_vars
    /\ [][\A h \in Hart :
            (pc[h] = "sbi_ret" /\ pc'[h] # "sbi_ret" /\ ans[h].error # SENTINEL) =>
               /\ pc'[h] = "smode"
               /\ ctx'[h].a0 = ans[h].error
               /\ ctx'[h].a1 = ans[h].value
               /\ ctx'[h].mepc = ctx[h].mepc + 4
               /\ \A f \in (DOMAIN ctx[h]) \ ReturnFields : ctx'[h][f] = ctx[h][f]]_vars

\* A hart is back in S-mode after hart_get_status returned normally: a7 and a6
\* still name the call, a0 and a1 hold the answer.
C26_Witness ==
    \E h \in Hart :
        /\ pc[h] = "smode" /\ ~fresh[h]
        /\ ctx[h].a7 = EID_HSM /\ ctx[h].a6 = FID_HART_GET_STATUS
        /\ ans[h].error = 0 /\ ctx[h].a0 = 0 /\ ctx[h].a1 = ans[h].value
        /\ ctx[h].mepc = SUPERVISOR_ENTRY + 4

\* Where a yield of the runtime leaves the hart: at the head of a match arm.
YieldPcs == {"sbi_call", "illegal", "mtimer", "msoft"}

\* Where a match arm ends and the loop calls rt.resume() (exec_enter: the
\* first resume).
ResumePcs == {"exec_enter", "sbi_ret", "illegal", "mtimer", "msoft_none", "stop_wake"}

=============================================================================
